---- MODULE Spec2Model ----
(***************************************************************************)
(* SATpwn (src/SATpwn.py): the AP/client memory store with TTL eviction,   *)
(* the activity window and stationary timer, the auto sub-mode decision    *)
(* and the JSON snapshot (save / load), driven by the host's callbacks.    *)
(*                                                                         *)
(* Python values are modelled as follows: a dict is a function whose       *)
(* DOMAIN is its key set (d.get(k, default) is Get), a list is a sequence, *)
(* None is the empty sequence <<>> and a set value t is <<t>>, time.time() *)
(* is the variable now (one reading per handler run).                      *)
(***************************************************************************)
EXTENDS Integers, Sequences, FiniteSets, TLC

VARIABLES
    now,                   \* the wall clock, time.time()
    phase,                 \* host lifecycle: constructed, loaded, ready, unloaded
    epoch,                 \* the host's epoch counter, modulo 10
    disk,                  \* the file at memory_path
    ready,                 \* self.ready
    memory,                \* self.memory
    mode,                  \* self.mode
    memory_is_dirty,       \* self.memory_is_dirty
    activity_history,      \* self._activity_history
    home_whitelist,        \* self.home_whitelist
    current_auto_submode,  \* self._current_auto_submode
    stationary_start,      \* self._stationary_start
    ticks,                 \* number of clock advances so far
    saved,                 \* history: what the last write that succeeded was given
    last                   \* history: the handler that ran last and what it did

vars == <<now, phase, epoch, disk, ready, memory, mode, memory_is_dirty,
          activity_history, home_whitelist, current_auto_submode,
          stationary_start, ticks, saved, last>>

-----------------------------------------------------------------------------
(* Class constants, src/SATpwn.py lines 28-48.                             *)

AP_EXPIRY_SECONDS == 3600 * 48
CLIENT_EXPIRY_SECONDS == 3600 * 24
DRIVE_BY_AP_EXPIRY_SECONDS == 1800
DRIVE_BY_CLIENT_EXPIRY_SECONDS == 900
STATIONARY_SECONDS == 3600
ACTIVITY_THRESHOLD == 5
ACTIVITY_WINDOW_SECONDS == 300
AUTO_STRICT_MIN_APS == 10
VERSION == "x88.0.7"

modes == <<"strict", "loose", "drive-by", "recon", "auto">>
ModeSet == {modes[i] : i \in DOMAIN modes}

-----------------------------------------------------------------------------
(* Bounds of the model.                                                    *)

MaxTicks == 1
MaxSamples == 2
StartTime == 1000000


-----------------------------------------------------------------------------
(* Python helpers.                                                         *)

None == <<>>
EmptyMap == [k \in {} |-> k]

Get(d, k, default) == IF k \in DOMAIN d THEN d[k] ELSE default

(* Mutant: identifiers are used in the case they arrive in.                *)
LowerKeepsCase(s) == s

(* str.lower() on the identifiers the scanner feed delivers.               *)
Lower(s) ==
    CASE s = "AA:01" -> "aa:01"
      [] s = "BB:02" -> "bb:02"
      [] s = "C1:0A" -> "c1:0a"
      [] OTHER -> s

Put(d, k, v) == (k :> v) @@ d

-----------------------------------------------------------------------------
(* Activity tracker and motion classifier.                                 *)

RECURSIVE SumCounts(_)
SumCounts(h) == IF h = <<>> THEN 0 ELSE Head(h).count + SumCounts(Tail(h))

InWindow(e, t) == t - e.t <= ACTIVITY_WINDOW_SECONDS

RetainedAfter(e, cutoff) == e.t > cutoff

(* sum(count for t, count in history if now - t <= ACTIVITY_WINDOW_SECONDS) *)
RecentActivity(hist, t) == SumCounts(SelectSeq(hist, LAMBDA e : InWindow(e, t)))

(* _update_activity_history: append, then keep the samples with t > cutoff. *)
UpdateActivityHistory(hist, t, new_ap_count) ==
    LET cutoff == t - ACTIVITY_WINDOW_SECONDS
    IN  SelectSeq(Append(hist, [t |-> t, count |-> new_ap_count]),
                  LAMBDA e : RetainedAfter(e, cutoff))

(* _is_stationary: the value returned and the stationary timer it leaves.  *)
IsStationary(hist, ss, t) ==
    LET low_activity == RecentActivity(hist, t) < ACTIVITY_THRESHOLD
        started == IF ss = None THEN <<t>> ELSE ss
    IN  IF low_activity
        THEN [result |-> (t - started[1] >= STATIONARY_SECONDS), ss |-> started]
        ELSE [result |-> FALSE, ss |-> None]

(* _is_moving *)
IsMoving(hist, t) == RecentActivity(hist, t) >= ACTIVITY_THRESHOLD

(* Mutant: only the display-name is looked up in the whitelist.            *)
HomeSsidVisibleSsidOnly(mem, whitelist) ==
    IF whitelist = {}
    THEN FALSE
    ELSE \E ap_mac \in DOMAIN mem : Get(mem[ap_mac], "ssid", "") \in whitelist

(* _home_ssid_visible *)
HomeSsidVisible(mem, whitelist) ==
    IF whitelist = {}
    THEN FALSE
    ELSE \E ap_mac \in DOMAIN mem :
            \/ Get(mem[ap_mac], "ssid", "") \in whitelist
            \/ ap_mac \in whitelist

(* Mutant: a visible home network yields to a burst of discoveries.        *)
SelectSubmodeHomeUnlessMoving(home_ssid_visible, is_stationary, is_moving, ap_count) ==
    IF is_stationary \/ (home_ssid_visible /\ ~is_moving) THEN "recon"
    ELSE IF is_moving THEN "drive-by"
    ELSE IF ap_count < AUTO_STRICT_MIN_APS THEN "loose" ELSE "strict"

(* Mutant: moving is tested before home and stationary.                    *)
SelectSubmodeMovingFirst(home_ssid_visible, is_stationary, is_moving, ap_count) ==
    IF is_moving THEN "drive-by"
    ELSE IF home_ssid_visible \/ is_stationary THEN "recon"
    ELSE IF ap_count < AUTO_STRICT_MIN_APS THEN "loose" ELSE "strict"

(* The final rule of _auto_mode_logic once the three signals are known.    *)
SelectSubmode(home_ssid_visible, is_stationary, is_moving, ap_count) ==
    IF home_ssid_visible \/ is_stationary THEN "recon"
    ELSE IF is_moving THEN "drive-by"
    ELSE IF ap_count < AUTO_STRICT_MIN_APS THEN "loose" ELSE "strict"

(* _auto_mode_logic: the sub-mode, the timer left by _is_stationary and    *)
(* the three signals it computed.                                          *)
AutoModeLogic(mem, whitelist, hist, ss, t) ==
    LET home_ssid_visible == HomeSsidVisible(mem, whitelist)
        st == IsStationary(hist, ss, t)
        is_moving == IsMoving(hist, t)
    IN  [submode |-> SelectSubmode(home_ssid_visible, st.result, is_moving,
                                   Cardinality(DOMAIN mem)),
         ss |-> st.ss,
         home |-> home_ssid_visible,
         stationary |-> st.result,
         moving |-> is_moving]

-----------------------------------------------------------------------------
(* The memory store: ingest and eviction.                                  *)

NewClient(t) == [first_seen |-> t, last_seen |-> t, packets |-> 0]

NewAp(ssid, rssi, channel, encryption, t) ==
    [ssid |-> ssid, first_seen |-> t, last_seen |-> t, rssi |-> rssi,
     channel |-> channel, encryption |-> encryption, clients |-> EmptyMap,
     attack_history |-> <<>>, handshakes |-> 0, pmkid_attempts |-> 0,
     score |-> 0]

(* Mutant: the update leaves last_seen as it was.                          *)
UpdateApKeepsLastSeen(ap_entry, ssid, rssi, t) ==
    LET a == Put(ap_entry, "rssi", rssi)
    IN  IF ssid # "" THEN Put(a, "ssid", ssid) ELSE a

(* Mutant: the display-name is overwritten by every re-observation.        *)
UpdateApAnySsid(ap_entry, ssid, rssi, t) ==
    Put(Put(Put(ap_entry, "last_seen", t), "rssi", rssi), "ssid", ssid)

(* Mutant: every re-observation is counted in the record.                  *)
UpdateApCountsSighting(ap_entry, ssid, rssi, t) ==
    LET a == Put(Put(Put(ap_entry, "last_seen", t), "rssi", rssi),
                 "score", ap_entry.score + 1)
    IN  IF ssid # "" THEN Put(a, "ssid", ssid) ELSE a

(* Mutant: the update also restarts first_seen.                            *)
UpdateApResetsFirstSeen(ap_entry, ssid, rssi, t) ==
    LET a == Put(Put(Put(ap_entry, "last_seen", t), "first_seen", t), "rssi", rssi)
    IN  IF ssid # "" THEN Put(a, "ssid", ssid) ELSE a

(* Lines 390-395: the update of an AP that is already in memory.           *)
UpdateAp(ap_entry, ssid, rssi, t) ==
    LET a == Put(Put(ap_entry, "last_seen", t), "rssi", rssi)
    IN  IF ssid # "" THEN Put(a, "ssid", ssid) ELSE a

(* Lines 399-413: the client loop of one AP observation. acc holds the     *)
(* AP's client mapping and the dirty flag.                                 *)
RECURSIVE IngestClients(_, _, _)
IngestClients(acc, clients, t) ==
    IF clients = <<>> THEN acc
    ELSE LET client_mac == Lower(Get(Head(clients), "mac", ""))
             next ==
                 IF client_mac = "" THEN acc
                 ELSE IF client_mac \notin DOMAIN acc.clients
                 THEN [clients |-> Put(acc.clients, client_mac, NewClient(t)),
                       dirty |-> TRUE]
                 ELSE [acc EXCEPT !.clients =
                          Put(acc.clients, client_mac,
                              Put(acc.clients[client_mac], "last_seen", t))]
         IN  IngestClients(next, Tail(clients), t)

(* Mutant: an observation without identifier is stored like any other.     *)
IngestApNoSkip(acc, ap_data, t) ==
    LET ap_mac == Lower(Get(ap_data, "mac", ""))
        is_new_ap == ap_mac \notin DOMAIN acc.memory
        entry == IF is_new_ap
                 THEN NewAp(Get(ap_data, "hostname", ""), Get(ap_data, "rssi", 0),
                            Get(ap_data, "channel", 0),
                            Get(ap_data, "encryption", ""), t)
                 ELSE UpdateAp(acc.memory[ap_mac], Get(ap_data, "hostname", ""),
                               Get(ap_data, "rssi", 0), t)
        cl == IngestClients([clients |-> entry.clients,
                             dirty |-> (acc.dirty \/ is_new_ap)],
                            Get(ap_data, "clients", <<>>), t)
    IN  [memory |-> Put(acc.memory, ap_mac, Put(entry, "clients", cl.clients)),
         dirty |-> cl.dirty,
         count |-> acc.count + (IF is_new_ap THEN 1 ELSE 0)]

(* Lines 357-413: one AP observation. acc holds memory, dirty flag and     *)
(* new_ap_count.                                                           *)
IngestAp(acc, ap_data, t) ==
    LET ap_mac == Lower(Get(ap_data, "mac", ""))
        ssid == Get(ap_data, "hostname", "")
        rssi == Get(ap_data, "rssi", 0)
        channel == Get(ap_data, "channel", 0)
        encryption == Get(ap_data, "encryption", "")
        is_new_ap == ap_mac \notin DOMAIN acc.memory
        entry == IF is_new_ap
                 THEN NewAp(ssid, rssi, channel, encryption, t)
                 ELSE UpdateAp(acc.memory[ap_mac], ssid, rssi, t)
        cl == IngestClients([clients |-> entry.clients,
                             dirty |-> (acc.dirty \/ is_new_ap)],
                            Get(ap_data, "clients", <<>>), t)
    IN  IF ap_mac = "" THEN acc
        ELSE [memory |-> Put(acc.memory, ap_mac, Put(entry, "clients", cl.clients)),
              dirty |-> cl.dirty,
              count |-> acc.count + (IF is_new_ap THEN 1 ELSE 0)]

RECURSIVE IngestAps(_, _, _)
IngestAps(acc, aps, t) ==
    IF aps = <<>> THEN acc
    ELSE IngestAps(IngestAp(acc, Head(aps), t), Tail(aps), t)

(* Mutant: the drive-by TTL is also applied under top-level auto.          *)
ApExpiryAutoShort(m) ==
    IF m \in {"drive-by", "auto"}
    THEN DRIVE_BY_AP_EXPIRY_SECONDS
    ELSE AP_EXPIRY_SECONDS

(* The TTLs _cleanup_memory applies, lines 308-309.                        *)
ApExpiry(m) ==
    IF m = "drive-by" THEN DRIVE_BY_AP_EXPIRY_SECONDS ELSE AP_EXPIRY_SECONDS

ClientExpiry(m) ==
    IF m = "drive-by" THEN DRIVE_BY_CLIENT_EXPIRY_SECONDS ELSE CLIENT_EXPIRY_SECONDS

(* Mutant: a record whose age equals the TTL is expired too.               *)
ExpiredAtTtl(record, t, ttl) == t - Get(record, "last_seen", 0) >= ttl

Expired(record, t, ttl) == t - Get(record, "last_seen", 0) > ttl

(* Mutant: the clients of the surviving APs are not swept.                 *)
CleanupMemoryApsOnly(mem, m, t) ==
    [ap_mac \in {a \in DOMAIN mem : ~Expired(mem[a], t, ApExpiry(m))} |->
        mem[ap_mac]]

(* _cleanup_memory: the memory it leaves (it also sets the dirty flag).    *)
CleanupMemory(mem, m, t) ==
    LET expired_aps == {ap_mac \in DOMAIN mem : Expired(mem[ap_mac], t, ApExpiry(m))}
        kept == DOMAIN mem \ expired_aps
        Sweep(ap) ==
            LET cs == Get(ap, "clients", EmptyMap)
                expired_clients ==
                    {c \in DOMAIN cs : Expired(cs[c], t, ClientExpiry(m))}
            IN  IF expired_clients = {} THEN ap
                ELSE Put(ap, "clients",
                         [c \in DOMAIN cs \ expired_clients |-> cs[c]])
    IN  [ap_mac \in kept |-> Sweep(mem[ap_mac])]

-----------------------------------------------------------------------------
(* Persistence. The file is absent, holds text json.load rejects           *)
(* ("garbage"), or holds a JSON document (data). last_saved is kept by its *)
(* JSON type only: its value is used in a log line and nowhere else.       *)

AbsentFile == [kind |-> "absent", data |-> EmptyMap]
GarbageFile == [kind |-> "garbage", data |-> EmptyMap]
JsonFile(data) == [kind |-> "json", data |-> data]

(* Mutant: the stationary timer is left out of the metadata block.         *)
MemoryDataNoTimer(m, ss, mem) ==
    [plugin_metadata |->
        [current_mode |-> m, last_saved |-> "number", version |-> VERSION],
     ap_data |-> mem]

(* The document _save_memory builds, lines 245-253.                        *)
MemoryData(m, ss, mem) ==
    [plugin_metadata |->
        [current_mode |-> m, last_saved |-> "number", version |-> VERSION,
         stationary_start |-> ss],
     ap_data |-> mem]

(* History: the store and mode state handed to the write, kept while the  *)
(* file still holds what that write left.                                  *)
SavedAfter(old, m, ss, mem, outcome) ==
    CASE outcome = "ok" -> <<[memory |-> mem, mode |-> m, ss |-> ss]>>
      [] outcome = "open_fails" -> old
      [] outcome = "dump_fails" -> None

(* How the write at lines 255-256 can end: written; open() raises and the  *)
(* file is untouched; open() truncates the file and json.dump raises.      *)
WriteOutcomes == {"ok", "open_fails", "dump_fails"}

(* _save_memory: the file it leaves. Every exception is caught, line 258.  *)
SaveMemory(file, m, ss, mem, outcome) ==
    CASE outcome = "ok" -> JsonFile(MemoryData(m, ss, mem))
      [] outcome = "open_fails" -> file
      [] outcome = "dump_fails" -> GarbageFile

(* The handler of lines 297-300.                                           *)
LoadFailed(ss) ==
    [memory |-> EmptyMap, mode |-> modes[1], ss |-> ss, raised |-> FALSE]

(* Mutant: the handler of a failure part-way through the metadata block   *)
(* logs it and resets nothing.                                             *)
LoadNewFormatNoReset(data) ==
    LET metadata == data["plugin_metadata"]
        saved_mode == Get(metadata, "current_mode", modes[1])
    IN  [memory |-> Get(data, "ap_data", EmptyMap),
         mode |-> IF saved_mode \in ModeSet THEN saved_mode ELSE modes[1],
         ss |-> Get(metadata, "stationary_start", None),
         raised |-> FALSE]

(* Mutant: the saved mode is restored without the membership test.        *)
LoadNewFormatAnyMode(data) ==
    LET metadata == data["plugin_metadata"]
    IN  IF Get(metadata, "last_saved", "number") # "number"
        THEN LoadFailed(Get(metadata, "stationary_start", None))
        ELSE [memory |-> Get(data, "ap_data", EmptyMap),
              mode |-> Get(metadata, "current_mode", modes[1]),
              ss |-> Get(metadata, "stationary_start", None),
              raised |-> FALSE]

(* Lines 269-290: a document with a metadata block. The subtraction at     *)
(* line 289 raises when last_saved is not a number, after the three        *)
(* assignments above it were made.                                         *)
LoadNewFormat(data) ==
    LET metadata == data["plugin_metadata"]
        saved_mode == Get(metadata, "current_mode", modes[1])
        restored == Get(metadata, "stationary_start", None)
        last_saved == Get(metadata, "last_saved", "number")
    IN  IF last_saved # "number"
        THEN LoadFailed(restored)
        ELSE [memory |-> Get(data, "ap_data", EmptyMap),
              mode |-> IF saved_mode \in ModeSet THEN saved_mode ELSE modes[1],
              ss |-> restored,
              raised |-> FALSE]

(* _load_memory: memory, mode and stationary timer it leaves, and whether  *)
(* an exception leaves the method.                                         *)
LoadMemory(file, mem, m, ss) ==
    CASE file.kind = "absent" ->
            [memory |-> mem, mode |-> m, ss |-> ss, raised |-> FALSE]
      [] file.kind = "garbage" -> LoadFailed(ss)
      [] file.kind = "json" ->
            IF "plugin_metadata" \in DOMAIN file.data
            THEN LoadNewFormat(file.data)
            ELSE [memory |-> file.data, mode |-> modes[1], ss |-> ss,
                  raised |-> FALSE]

-----------------------------------------------------------------------------
(* Inputs: the batches of the scanner feed, the snapshots found at start,  *)
(* the configured whitelists.                                              *)

Obs(mac, hostname, rssi, clients) ==
    [mac |-> mac, hostname |-> hostname, rssi |-> rssi, channel |-> 6,
     encryption |-> "WPA2", clients |-> clients]

Filler(mac) == Obs(mac, "net", -80, <<>>)

Batches ==
    << <<>>,
       << Obs("AA:01", "HomeNet", -50, << [mac |-> "C1:0A"] >>) >>,
       << Obs("aa:01", "", -70, << [mac |-> ""], [mac |-> "c1:0a"] >>) >>,
       << [hostname |-> "Ghost", clients |-> << [mac |-> "c1:0a"] >>],
          Obs("bb:02", "Cafe", -60, << [rssi |-> -40] >>) >>,
       << Filler("f1"), Filler("f2"), Filler("f3"), Filler("f4"), Filler("f5") >>,
       << Filler("g1"), Filler("g2"), Filler("g3"), Filler("g4") >>,
       << [hostname |-> "Ghost", clients |-> << [mac |-> "c3:0c"] >>],
          Obs("", "Blank", -55, << [mac |-> "c2:0b"] >>),
          Obs("BB:02", "Cafe", -60,
              << [rssi |-> -40], [mac |-> ""], [mac |-> "C1:0A"] >>),
          Obs("bb:02", "", -61, <<>>) >>,
       << Obs("AA:01", "Guest", -52, <<>>) >> >>

(* Records written by an earlier run, with the ages the TTLs turn on.       *)
OldAp(ssid, t, clients) ==
    [NewAp(ssid, -75, 1, "WPA2", t) EXCEPT !.clients = clients]

OldClient(t) == NewClient(t)

OldMemory ==
    Put(Put(EmptyMap,
        "cc:03", OldAp("Old", StartTime - DRIVE_BY_AP_EXPIRY_SECONDS,
                       Put(Put(Put(EmptyMap,
                           "c7:07", OldClient(StartTime - CLIENT_EXPIRY_SECONDS)),
                           "c8:08", OldClient(StartTime - DRIVE_BY_CLIENT_EXPIRY_SECONDS)),
                           "c9:09", OldClient(StartTime - DRIVE_BY_AP_EXPIRY_SECONDS)))),
        "dd:04", OldAp("Older", StartTime - AP_EXPIRY_SECONDS, EmptyMap))

(* Five records: with the five of one burst, the count at which auto      *)
(* selects strict.                                                         *)
BigMemory ==
    [ap_mac \in {"o1", "o2", "o3", "o4", "o5"} |->
        OldAp("net", StartTime - STATIONARY_SECONDS, EmptyMap)]

Files ==
    << AbsentFile,
       GarbageFile,
       JsonFile(OldMemory),
       JsonFile(MemoryData("drive-by", <<StartTime - STATIONARY_SECONDS>>, OldMemory)),
       JsonFile(MemoryData("auto", None, OldMemory)),
       JsonFile(MemoryData("turbo", None, OldMemory)),
       JsonFile([MemoryData("auto", <<StartTime>>, OldMemory) EXCEPT
                    !.plugin_metadata.last_saved = "string"]),
       JsonFile([plugin_metadata |-> EmptyMap]),
       JsonFile(MemoryData("auto", None, BigMemory)) >>

Whitelists == << {}, {"HomeNet"}, {"homenet", "bb:02"} >>

-----------------------------------------------------------------------------
(* History variable: the handler that ran last and what it did (for a      *)
(* batch: the observations, and whether the handler before it was given    *)
(* the same ones).                                                         *)

Ran(op) ==
    [op |-> op, count |-> 0, swept |-> FALSE, evicted |-> FALSE,
     write |-> "none", stationary |-> "na", raised |-> FALSE,
     aps |-> <<>>, repeat |-> FALSE, home |-> "na"]

Bool(b) == IF b THEN "true" ELSE "false"

-----------------------------------------------------------------------------
(* The state after __init__, lines 50-71, in front of one of the given     *)
(* snapshots and configured whitelists.                                    *)

InitOver(files, whitelists) ==
    /\ now = StartTime
    /\ phase = "constructed"
    /\ epoch = 0
    /\ disk \in {Files[i] : i \in files}
    /\ ready = FALSE
    /\ memory = EmptyMap
    /\ mode = modes[1]
    /\ memory_is_dirty = TRUE
    /\ activity_history = <<>>
    /\ home_whitelist \in {Whitelists[i] : i \in whitelists}
    /\ current_auto_submode = None
    /\ stationary_start = None
    /\ ticks = 0
    /\ saved = None
    /\ last = Ran("init")

(* on_loaded *)
OnLoaded ==
    /\ phase = "constructed"
    /\ LET r == LoadMemory(disk, memory, mode, stationary_start)
       IN  /\ memory' = r.memory
           /\ mode' = r.mode
           /\ stationary_start' = r.ss
           /\ last' = [Ran("loaded") EXCEPT !.raised = r.raised]
    /\ phase' = "loaded"
    /\ UNCHANGED <<saved, now, epoch, disk, ready, memory_is_dirty, activity_history,
                   home_whitelist, current_auto_submode, ticks>>

(* on_ready *)
OnReady ==
    /\ phase = "loaded"
    /\ ready' = TRUE
    /\ phase' = "ready"
    /\ last' = Ran("ready")
    /\ UNCHANGED <<saved, now, epoch, disk, memory, mode, memory_is_dirty,
                   activity_history, home_whitelist, current_auto_submode,
                   stationary_start, ticks>>

(* on_unfiltered_ap_list with data['wifi']['aps'] = aps *)
OnUnfilteredApList(aps) ==
    /\ phase \in {"loaded", "ready"}
    /\ Len(activity_history) < MaxSamples
    /\ IF ~ready
       THEN /\ last' = Ran("batch_ignored")
            /\ UNCHANGED <<memory, memory_is_dirty, activity_history,
                           current_auto_submode, stationary_start>>
       ELSE LET r == IngestAps([memory |-> memory, dirty |-> memory_is_dirty,
                                count |-> 0], aps, now)
                hist == UpdateActivityHistory(activity_history, now, r.count)
                auto == AutoModeLogic(r.memory, home_whitelist, hist,
                                      stationary_start, now)
            IN  /\ memory' = r.memory
                /\ memory_is_dirty' = r.dirty
                /\ activity_history' = hist
                /\ IF mode = "auto"
                   THEN /\ current_auto_submode' = <<auto.submode>>
                        /\ stationary_start' = auto.ss
                        /\ last' = [Ran("batch") EXCEPT
                                       !.count = r.count,
                                       !.stationary = Bool(auto.stationary),
                                       !.home = Bool(auto.home),
                                       !.aps = aps,
                                       !.repeat = (last.op = "batch" /\ last.aps = aps)]
                   ELSE /\ UNCHANGED <<current_auto_submode, stationary_start>>
                        /\ last' = [Ran("batch") EXCEPT
                                       !.count = r.count,
                                       !.aps = aps,
                                       !.repeat = (last.op = "batch" /\ last.aps = aps)]
    /\ UNCHANGED <<saved, now, phase, epoch, disk, ready, mode, home_whitelist, ticks>>

(* on_ui_update: _is_stationary runs only when _is_moving returned False.  *)
OnUiUpdate ==
    /\ phase \in {"loaded", "ready"}
    /\ IF ~ready
       THEN /\ last' = Ran("ui_ignored")
            /\ UNCHANGED stationary_start
       ELSE IF IsMoving(activity_history, now)
       THEN /\ last' = Ran("ui")
            /\ UNCHANGED stationary_start
       ELSE LET st == IsStationary(activity_history, stationary_start, now)
            IN  /\ stationary_start' = st.ss
                /\ last' = [Ran("ui") EXCEPT !.stationary = Bool(st.result)]
    /\ UNCHANGED <<saved, now, phase, epoch, disk, ready, memory, mode,
                   memory_is_dirty, activity_history, home_whitelist,
                   current_auto_submode, ticks>>

(* on_epoch with the host's counter as epoch; outcome is how the write     *)
(* ends if one is made.                                                    *)
OnEpoch(outcome) ==
    /\ phase \in {"loaded", "ready"}
    /\ epoch' = (epoch + 5) % 10
    /\ IF ~ready
       THEN /\ outcome = "ok"
            /\ last' = Ran("epoch_ignored")
            /\ UNCHANGED <<disk, saved, memory, memory_is_dirty>>
       ELSE LET sweep == epoch % 10 = 0
                mem == IF sweep THEN CleanupMemory(memory, mode, now) ELSE memory
                dirty == IF sweep THEN TRUE ELSE memory_is_dirty
                save == dirty /\ epoch % 5 = 0
            IN  /\ memory' = mem
                /\ IF save
                   THEN /\ disk' = SaveMemory(disk, mode, stationary_start, mem,
                                              outcome)
                        /\ saved' = SavedAfter(saved, mode, stationary_start,
                                               mem, outcome)
                        /\ memory_is_dirty' = FALSE
                        /\ last' = [Ran("epoch") EXCEPT
                                       !.swept = sweep,
                                       !.evicted = (mem # memory),
                                       !.write = outcome]
                   ELSE /\ outcome = "ok"
                        /\ UNCHANGED <<disk, saved>>
                        /\ memory_is_dirty' = dirty
                        /\ last' = [Ran("epoch") EXCEPT
                                       !.swept = sweep,
                                       !.evicted = (mem # memory)]
    /\ UNCHANGED <<now, phase, ready, mode, activity_history, home_whitelist,
                   current_auto_submode, stationary_start, ticks>>

(* Mutant: _save_memory lets the exception of a failed write through, and  *)
(* on_unload ends with it.                                                 *)
OnUnloadUncaught(outcome) ==
    /\ phase \in {"loaded", "ready"}
    /\ IF memory_is_dirty
       THEN /\ disk' = SaveMemory(disk, mode, stationary_start, memory, outcome)
            /\ saved' = SavedAfter(saved, mode, stationary_start, memory, outcome)
            /\ phase' = IF outcome = "ok" THEN "unloaded" ELSE phase
            /\ last' = [Ran("unload") EXCEPT !.write = outcome,
                                             !.raised = (outcome # "ok")]
       ELSE /\ outcome = "ok"
            /\ phase' = "unloaded"
            /\ UNCHANGED <<disk, saved>>
            /\ last' = Ran("unload")
    /\ UNCHANGED <<now, epoch, ready, memory, mode, memory_is_dirty,
                   activity_history, home_whitelist, current_auto_submode,
                   stationary_start, ticks>>

(* Mutant: on_unload makes no final save.                                  *)
OnUnloadNoSave(outcome) ==
    /\ phase \in {"loaded", "ready"}
    /\ phase' = "unloaded"
    /\ outcome = "ok"
    /\ last' = Ran("unload")
    /\ UNCHANGED <<now, epoch, disk, ready, memory, mode, memory_is_dirty,
                   activity_history, home_whitelist, current_auto_submode,
                   stationary_start, ticks, saved>>

(* on_unload *)
OnUnload(outcome) ==
    /\ phase \in {"loaded", "ready"}
    /\ phase' = "unloaded"
    /\ IF memory_is_dirty
       THEN /\ disk' = SaveMemory(disk, mode, stationary_start, memory, outcome)
            /\ saved' = SavedAfter(saved, mode, stationary_start, memory, outcome)
            /\ last' = [Ran("unload") EXCEPT !.write = outcome]
       ELSE /\ outcome = "ok"
            /\ UNCHANGED <<disk, saved>>
            /\ last' = Ran("unload")
    /\ UNCHANGED <<now, epoch, ready, memory, mode, memory_is_dirty,
                   activity_history, home_whitelist, current_auto_submode,
                   stationary_start, ticks>>

(* The process ends after on_unload and the plugin is constructed again:   *)
(* __init__. (A process killed without on_unload leaves what on_unload     *)
(* with a failed open() leaves.)                                           *)
Restart ==
    /\ phase = "unloaded"
    /\ phase' = "constructed"
    /\ epoch' = 0
    /\ ready' = FALSE
    /\ memory' = EmptyMap
    /\ mode' = modes[1]
    /\ memory_is_dirty' = TRUE
    /\ activity_history' = <<>>
    /\ current_auto_submode' = None
    /\ stationary_start' = None
    /\ last' = Ran("restart")
    /\ UNCHANGED <<saved, now, disk, home_whitelist, ticks>>

(* The top-level mode is changed from outside the plugin.                  *)
SetMode(m) ==
    /\ phase \in {"loaded", "ready"}
    /\ m # mode
    /\ mode' = m
    /\ last' = Ran("set_mode")
    /\ UNCHANGED <<saved, now, phase, epoch, disk, ready, memory, memory_is_dirty,
                   activity_history, home_whitelist, current_auto_submode,
                   stationary_start, ticks>>

(* Time passes between two callbacks.                                      *)
Tick(d) ==
    /\ ticks < MaxTicks
    /\ ticks' = ticks + 1
    /\ now' = now + d
    /\ last' = Ran("tick")
    /\ UNCHANGED <<saved, phase, epoch, disk, ready, memory, mode, memory_is_dirty,
                   activity_history, home_whitelist, current_auto_submode,
                   stationary_start>>

(* The callbacks the host delivers, with the inputs drawn from the given   *)
(* batches, clock advances, externally set modes and write outcomes.       *)
NextOver(batches, deltas, set_modes, outcomes) ==
    \/ OnLoaded
    \/ OnReady
    \/ \E i \in batches : OnUnfilteredApList(Batches[i])
    \/ OnUiUpdate
    \/ \E outcome \in outcomes : OnEpoch(outcome)
    \/ \E outcome \in outcomes : OnUnload(outcome)
    \/ Restart
    \/ \E m \in set_modes : SetMode(m)
    \/ \E d \in deltas : Tick(d)

(* Every snapshot shape, under a small feed.                               *)
InitLoad == InitOver(DOMAIN Files \ {9}, {2})
NextLoad == NextOver({2}, {100}, {"drive-by"}, WriteOutcomes)
SpecLoad == InitLoad /\ [][NextLoad]_vars

(* The store, its sweeps and its saves, under every top-level mode.        *)
InitStore == InitOver({4, 5}, {2})
NextStore == NextOver({2, 5}, {100}, {"strict"}, WriteOutcomes)
SpecStore == InitStore /\ [][NextStore]_vars

(* The scanner feed with its malformed, repeated and case-variant          *)
(* observations, from a fresh start.                                       *)
InitIngest == InitOver({1}, {1, 2, 3})
NextIngest == NextOver({2, 3, 7}, {300}, {"auto"}, {"ok"})
SpecIngest == InitIngest /\ [][NextIngest]_vars

(* A home AP that is created, renamed, outlived by bursts and evicted      *)
(* after the long TTL, from a fresh start.                                 *)
InitHome == InitOver({1}, {2})
NextHome == NextOver({2, 5, 8}, {300, AP_EXPIRY_SECONDS + 100}, {"auto"}, {"ok"})
SpecHome == InitHome /\ [][NextHome]_vars

(* The activity window, the stationary timer and the auto sub-mode.        *)
InitAuto == InitOver({1, 9}, {1, 2})
NextAuto == NextOver({2, 5}, {300, 3600}, {"auto"}, {"ok"})
SpecAuto == InitAuto /\ [][NextAuto]_vars

-----------------------------------------------------------------------------
(* Properties.                                                             *)

WriteFailed == last.write \in {"open_fails", "dump_fails"}

(* The ap_data of the snapshot in the file: the ap_data entry of a         *)
(* document with a metadata block, the whole document otherwise.           *)
SnapshotApData ==
    IF "plugin_metadata" \in DOMAIN disk.data
    THEN Get(disk.data, "ap_data", EmptyMap)
    ELSE disk.data

(* C1: when the periodic save of on_epoch fails to write the snapshot, the *)
(* dirty flag is still set afterwards, so that the next cycle retries.     *)
C1_DirtyKeptAfterFailedSave ==
    (last.op = "epoch" /\ WriteFailed) => memory_is_dirty

(* C2: whenever the dirty flag is clear, the file holds a snapshot whose   *)
(* ap_data equals the in-memory store, every record and field included.    *)
C2_CleanMeansSaved ==
    ~memory_is_dirty => (disk.kind = "json" /\ SnapshotApData = memory)

Age(record) == now - record.last_seen

(* C3: right after a sweep at time now under top-level mode m, no AP in    *)
(* memory is older than AP_TTL(m) and no client of a surviving AP is older *)
(* than CLIENT_TTL(m).                                                     *)
C3_EvictionSafety ==
    (last.op = "epoch" /\ last.swept) =>
        \A ap_mac \in DOMAIN memory :
            /\ Age(memory[ap_mac]) <= ApExpiry(mode)
            /\ \A c \in DOMAIN memory[ap_mac].clients :
                  Age(memory[ap_mac].clients[c]) <= ClientExpiry(mode)

(* C3 witness: a sweep that evicted something has left an AP with a        *)
(* client in memory.                                                       *)
C3_Witness ==
    /\ last.op = "epoch" /\ last.swept /\ last.evicted
    /\ \E ap_mac \in DOMAIN memory : memory[ap_mac].clients # EmptyMap

(* C4: the TTLs of a sweep are 1800 s and 900 s when the top-level mode is *)
(* drive-by and 172800 s and 86400 s in every other top-level mode,        *)
(* whatever the auto sub-mode: the sweep keeps exactly the APs, and of     *)
(* each kept AP exactly the clients, that are no older than that.          *)
C4_TtlByTopLevelMode ==
    [][(last'.op = "epoch" /\ last'.swept) =>
          LET ap_ttl == IF mode = "drive-by" THEN 1800 ELSE 172800
              client_ttl == IF mode = "drive-by" THEN 900 ELSE 86400
          IN  /\ DOMAIN memory' =
                    {a \in DOMAIN memory : now - memory[a].last_seen <= ap_ttl}
              /\ \A a \in DOMAIN memory' :
                    DOMAIN memory'[a].clients =
                        {c \in DOMAIN memory[a].clients :
                            now - memory[a].clients[c].last_seen <= client_ttl}
       ]_vars

(* C4 witness: a sweep under top-level auto with sub-mode drive-by has     *)
(* kept an AP last seen 1900 s ago.                                        *)
C4_Witness ==
    /\ last.op = "epoch" /\ last.swept
    /\ mode = "auto" /\ current_auto_submode = <<"drive-by">>
    /\ \E ap_mac \in DOMAIN memory : Age(memory[ap_mac]) = 1900

(* The three signals of the auto rule, read off the state.                 *)
WindowSum(t) ==
    SumCounts(SelectSeq(activity_history,
                        LAMBDA e : e.t <= t /\ t - e.t <= ACTIVITY_WINDOW_SECONDS))

HomeVisible ==
    \E ap_mac \in DOMAIN memory :
        memory[ap_mac].ssid \in home_whitelist \/ ap_mac \in home_whitelist

Moving == WindowSum(now) >= 5

Stationary ==
    /\ WindowSum(now) < 5
    /\ stationary_start # None
    /\ now - stationary_start[1] >= 3600

ProcessedInAuto == last.op = "batch" /\ mode = "auto"

(* C5: under top-level auto, after every processed batch the sub-mode is   *)
(* the first matching rule on the state the batch left: recon if           *)
(* home-visible or stationary, else drive-by if moving, else loose with    *)
(* fewer than 10 AP records and strict otherwise.                          *)
C5_AutoPriority ==
    ProcessedInAuto =>
        current_auto_submode =
            << IF HomeVisible \/ Stationary THEN "recon"
               ELSE IF Moving THEN "drive-by"
               ELSE IF Cardinality(DOMAIN memory) < 10 THEN "loose"
               ELSE "strict" >>

(* C5 witness: a batch was processed under auto with home visible and      *)
(* six discoveries in the window.                                          *)
C5_Witness ==
    ProcessedInAuto /\ HomeVisible /\ WindowSum(now) = 6

(* C6: whenever isStationary evaluates true at time now, the windowed      *)
(* activity was below the threshold at every instant of the last           *)
(* STATIONARY_SECONDS. (The windowed activity only rises at a sample, so   *)
(* the instants of the retained samples are the ones to look at.)          *)
C6_StationaryAfterQuietHour ==
    last.stationary = "true" =>
        \A i \in DOMAIN activity_history :
            LET at == activity_history[i].t
            IN  at >= now - STATIONARY_SECONDS =>
                    WindowSum(at) < ACTIVITY_THRESHOLD

(* C7: once isStationary has returned true, one sample with activity at or *)
(* above the threshold resets the stationary timer at once.                *)
C7_BurstResetsTimer ==
    [][(/\ last.stationary = "true"
        /\ last'.op = "batch"
        /\ last'.count >= ACTIVITY_THRESHOLD) => stationary_start' = None
      ]_vars

LoadedFromSave == last.op = "loaded" /\ saved # None

(* C8: a save that succeeded followed by a load reproduces the memory      *)
(* store, the top-level mode and the stationary-timer start.               *)
C8_RoundTrip ==
    LoadedFromSave =>
        /\ memory = saved[1].memory
        /\ mode = saved[1].mode
        /\ stationary_start = saved[1].ss

(* C8 witness: a load after a save of a non-empty store, a mode other than *)
(* the default and a running stationary timer.                             *)
C8_Witness ==
    /\ LoadedFromSave
    /\ saved[1].memory # EmptyMap
    /\ saved[1].mode # "strict"
    /\ saved[1].ss # None

PersistedMode ==
    IF disk.kind = "json" /\ "plugin_metadata" \in DOMAIN disk.data
    THEN Get(disk.data["plugin_metadata"], "current_mode", "strict")
    ELSE "strict"

KnownModes == {"strict", "loose", "drive-by", "recon", "auto"}

(* C9: the top-level mode is always one of the five known modes: a load    *)
(* whose persisted mode is none of them substitutes strict, and ingest,    *)
(* sweep, save, UI update and unload leave the mode unchanged.             *)
C9_ModeAlwaysKnown ==
    /\ [](mode \in KnownModes)
    /\ [][/\ mode' \in KnownModes
          /\ (last'.op = "loaded" /\ PersistedMode \notin KnownModes)
                => mode' = "strict"
          /\ last'.op \in {"batch", "batch_ignored", "ui", "ui_ignored", "epoch",
                           "epoch_ignored", "unload", "ready", "tick"}
                => mode' = mode
         ]_vars

(* C9 witness: a load met a persisted mode outside the five.               *)
C9_Witness ==
    last.op = "loaded" /\ PersistedMode = "turbo" /\ mode = "strict"

MetadataBroken ==
    /\ disk.kind = "json"
    /\ "plugin_metadata" \in DOMAIN disk.data
    /\ Get(disk.data["plugin_metadata"], "last_saved", "number") # "number"

(* C10: load propagates no failure, and leaves: with no snapshot, or one   *)
(* that cannot be parsed, or one whose metadata block fails part-way       *)
(* through decoding, empty memory and the default mode; with a snapshot    *)
(* without metadata block, the whole document as memory and the default    *)
(* mode.                                                                   *)
C10_LoadSafeDefaults ==
    last.op = "loaded" =>
        /\ ~last.raised
        /\ (disk.kind \in {"absent", "garbage"} \/ MetadataBroken)
              => (memory = EmptyMap /\ mode = "strict")
        /\ (disk.kind = "json" /\ "plugin_metadata" \notin DOMAIN disk.data)
              => (memory = disk.data /\ mode = "strict")

(* C10 witness: a load failed part-way through the metadata block, after   *)
(* the stationary timer had been restored.                                 *)
C10_Witness ==
    last.op = "loaded" /\ MetadataBroken /\ stationary_start # None

(* C11: under a non-decreasing clock, the last-seen of every AP record     *)
(* never decreases from one state to the next and is at least its          *)
(* first-seen, and its first-seen never changes while the record exists;   *)
(* the same holds for every client record.                                 *)
C11_SeenMonotone ==
    /\ [](\A a \in DOMAIN memory :
            /\ memory[a].last_seen >= memory[a].first_seen
            /\ \A c \in DOMAIN memory[a].clients :
                  memory[a].clients[c].last_seen >= memory[a].clients[c].first_seen)
    /\ [][\A a \in DOMAIN memory \cap DOMAIN memory' :
             /\ memory'[a].last_seen >= memory[a].last_seen
             /\ memory'[a].first_seen = memory[a].first_seen
             /\ \A c \in DOMAIN memory[a].clients \cap DOMAIN memory'[a].clients :
                   /\ memory'[a].clients[c].last_seen >=
                          memory[a].clients[c].last_seen
                   /\ memory'[a].clients[c].first_seen =
                          memory[a].clients[c].first_seen
         ]_vars

(* C11 witness: a batch has re-observed, after the clock advanced, an AP   *)
(* and one of its clients.                                                 *)
C11_Witness ==
    /\ last.op = "batch"
    /\ \E a \in DOMAIN memory :
          /\ memory[a].last_seen = now /\ memory[a].first_seen < now
          /\ \E c \in DOMAIN memory[a].clients :
                /\ memory[a].clients[c].last_seen = now
                /\ memory[a].clients[c].first_seen < now

(* C12: on_unload with the dirty flag set performs a final save, after     *)
(* which, if the write succeeded, the snapshot holds the whole in-memory   *)
(* store and the current top-level mode; with the dirty flag clear it      *)
(* writes nothing.                                                         *)
C12_FinalSaveOnUnload ==
    [][last'.op = "unload" =>
          /\ memory_is_dirty =>
                /\ last'.write # "none"
                /\ last'.write = "ok" =>
                      /\ disk'.kind = "json"
                      /\ disk'.data.ap_data = memory'
                      /\ disk'.data.plugin_metadata.current_mode = mode'
          /\ ~memory_is_dirty => (last'.write = "none" /\ disk' = disk)
      ]_vars

(* C12 witness: an unload with the dirty flag set has written a store that *)
(* the file did not hold before, under a mode other than the default.      *)
C12_Witness ==
    /\ last.op = "unload" /\ last.write = "ok"
    /\ memory_is_dirty
    /\ "aa:01" \in DOMAIN memory /\ mode = "auto"
    /\ SnapshotApData = memory

(* C13: when the snapshot write fails, the memory store, the top-level     *)
(* mode, the sub-mode, the stationary-timer start and the activity window  *)
(* are what they were before the save attempt (in on_epoch: after the      *)
(* sweep of that call, if it made one), and on_epoch or on_unload          *)
(* completes normally.                                                     *)
C13_SaveFailureLosesNothing ==
    [][(last'.op \in {"epoch", "unload"} /\ last'.write \in {"open_fails", "dump_fails"})
          => /\ mode' = mode
             /\ current_auto_submode' = current_auto_submode
             /\ stationary_start' = stationary_start
             /\ activity_history' = activity_history
             /\ ~last'.raised
             /\ last'.op = "unload" => (memory' = memory /\ phase' = "unloaded")
             /\ last'.op = "epoch" =>
                   /\ phase' = phase
                   /\ memory' = IF last'.swept
                                 THEN CleanupMemory(memory, mode, now)
                                 ELSE memory
      ]_vars

(* C13 witness: the write of on_unload has failed with records in memory,  *)
(* samples in the activity window and the stationary timer running.        *)
C13_Witness ==
    /\ last.op = "unload" /\ WriteFailed
    /\ memory # EmptyMap /\ activity_history # <<>> /\ stationary_start # None

(* C14: processing the same batch a second time at the same timestamp      *)
(* leaves the memory store, every AP and client record and field, as the   *)
(* first processing left it.                                               *)
C14_IngestIdempotent ==
    [][(last.op = "batch" /\ last'.op = "batch" /\ last'.aps = last.aps /\ now' = now)
          => memory' = memory
      ]_vars

(* C14 witness: a batch with clients and a repeated identifier was         *)
(* processed twice in a row at one timestamp.                              *)
C14_Witness ==
    /\ last.op = "batch" /\ last.repeat
    /\ Len(last.aps) > 1
    /\ \E a \in DOMAIN memory :
          memory[a].last_seen = now /\ memory[a].clients # EmptyMap

(* The identifiers of a batch that are present and non-empty, in the case  *)
(* the store keys them by.                                                 *)
HasId(o) == "mac" \in DOMAIN o /\ o.mac # ""

CaseFolded(s) ==
    CASE s = "AA:01" -> "aa:01"
      [] s = "BB:02" -> "bb:02"
      [] s = "C1:0A" -> "c1:0a"
      [] OTHER -> s

ObservedAps(aps) ==
    {CaseFolded(aps[i].mac) : i \in {j \in DOMAIN aps : HasId(aps[j])}}

ObservedClients(aps, a) ==
    UNION {{CaseFolded(aps[i].clients[k].mac) :
               k \in {n \in DOMAIN aps[i].clients : HasId(aps[i].clients[n])}} :
           i \in {j \in DOMAIN aps : HasId(aps[j]) /\ CaseFolded(aps[j].mac) = a}}

(* C15: an AP observation with a missing or empty identifier creates and   *)
(* updates no record, its nested clients included; a client observation    *)
(* with a missing or empty identifier creates no client record; every      *)
(* well-formed observation of the same batch is still ingested and the     *)
(* batch's activity sample is still recorded.                              *)
C15_MalformedSkipped ==
    [][last'.op = "batch" =>
          LET aps == last'.aps
          IN  /\ DOMAIN memory' = DOMAIN memory \cup ObservedAps(aps)
              /\ \A a \in DOMAIN memory \ ObservedAps(aps) : memory'[a] = memory[a]
              /\ \A a \in ObservedAps(aps) :
                    /\ memory'[a].last_seen = now
                    /\ DOMAIN memory'[a].clients =
                          (IF a \in DOMAIN memory THEN DOMAIN memory[a].clients ELSE {})
                              \cup ObservedClients(aps, a)
                    /\ \A c \in ObservedClients(aps, a) :
                          memory'[a].clients[c].last_seen = now
              /\ activity_history' # <<>>
              /\ activity_history'[Len(activity_history')].t = now
      ]_vars

(* C15 witness: the batch with an AP without identifier, an AP with an     *)
(* empty one and clients without and with an empty one has been processed, *)
(* and its well-formed AP and client are in memory.                        *)
C15_Witness ==
    /\ last.op = "batch" /\ last.aps = Batches[7]
    /\ "bb:02" \in DOMAIN memory
    /\ DOMAIN memory["bb:02"].clients = {"c1:0a"}
    /\ activity_history[Len(activity_history)].t = now

(* C16: isHomeVisible is true iff some AP record in memory has its         *)
(* display-name or its identifier key in the whitelist, by exact           *)
(* case-sensitive match, and is false for an empty whitelist; from empty   *)
(* memory with whitelist {HomeNet}, ingesting one AP observation named     *)
(* HomeNet makes it true and, under auto, makes the sub-mode recon.        *)
C16_HomeVisibleIffWhitelisted ==
    /\ [](last.home # "na" =>
            /\ last.home = "true" <=>
                  \E a \in DOMAIN memory :
                      memory[a].ssid \in home_whitelist \/ a \in home_whitelist
            /\ home_whitelist = {} => last.home = "false")
    /\ [][(/\ memory = EmptyMap
           /\ home_whitelist = {"HomeNet"}
           /\ mode = "auto"
           /\ last'.op = "batch"
           /\ Len(last'.aps) = 1
           /\ HasId(last'.aps[1])
           /\ last'.aps[1].hostname = "HomeNet")
              => (last'.home = "true" /\ current_auto_submode' = <<"recon">>)
         ]_vars

(* C16 witness: under auto with whitelist {HomeNet}, a batch has created   *)
(* the only record in memory, named HomeNet.                               *)
C16_Witness ==
    /\ last.op = "batch" /\ mode = "auto" /\ last.count = 1
    /\ home_whitelist = {"HomeNet"}
    /\ DOMAIN memory = {"aa:01"} /\ memory["aa:01"].ssid = "HomeNet"
    /\ last.home = "true" /\ current_auto_submode = <<"recon">>

(* C17: a sweep removes an AP record iff now - last-seen exceeds the AP    *)
(* TTL (an AP aged exactly the TTL survives), with all its clients;        *)
(* removes a client of a surviving AP iff now - last-seen exceeds the      *)
(* client TTL; and leaves every other record and field value, the          *)
(* top-level mode, the sub-mode, the stationary-timer start and the        *)
(* activity window unchanged.                                              *)
C17_SweepRemovesOnlyExpired ==
    [][(last'.op = "epoch" /\ last'.swept) =>
          LET ap_ttl == IF mode = "drive-by" THEN 1800 ELSE 172800
              client_ttl == IF mode = "drive-by" THEN 900 ELSE 86400
              kept == {a \in DOMAIN memory : ~(now - memory[a].last_seen > ap_ttl)}
              KeptClients(a) ==
                  {c \in DOMAIN memory[a].clients :
                      ~(now - memory[a].clients[c].last_seen > client_ttl)}
          IN  /\ DOMAIN memory' = kept
              /\ \A a \in kept :
                    memory'[a] =
                        [memory[a] EXCEPT
                            !.clients = [c \in KeptClients(a) |-> memory[a].clients[c]]]
              /\ mode' = mode
              /\ current_auto_submode' = current_auto_submode
              /\ stationary_start' = stationary_start
              /\ activity_history' = activity_history
      ]_vars

(* C17 witness: a sweep under drive-by that evicted something has kept an  *)
(* AP aged exactly 1800 s and one of its clients aged exactly 900 s.       *)
C17_Witness ==
    /\ last.op = "epoch" /\ last.swept /\ last.evicted
    /\ mode = "drive-by"
    /\ \E a \in DOMAIN memory :
          /\ Age(memory[a]) = 1800
          /\ \E c \in DOMAIN memory[a].clients : Age(memory[a].clients[c]) = 900

(* C18: every processed batch appends exactly one sample to the activity   *)
(* window, whose count is the number of AP records the batch created;      *)
(* identifiers are lower-cased before lookup, so that observations whose   *)
(* identifiers differ in letter case only, or repeat within the batch,     *)
(* address one record and count as new at most once.                       *)
C18_OneSamplePerBatch ==
    [][last'.op = "batch" =>
          LET created == DOMAIN memory' \ DOMAIN memory
              retained == SelectSeq(activity_history,
                                    LAMBDA e : e.t > now - ACTIVITY_WINDOW_SECONDS)
          IN  /\ activity_history' =
                    Append(retained, [t |-> now, count |-> Cardinality(created)])
              /\ created = ObservedAps(last'.aps) \ DOMAIN memory
              /\ \A a \in DOMAIN memory' : CaseFolded(a) = a
      ]_vars

(* C18 witness: the batch that names one new AP three times, in two        *)
(* letter cases, has left a sample of count 1.                             *)
C18_Witness ==
    /\ last.op = "batch" /\ last.aps = Batches[7]
    /\ "bb:02" \in DOMAIN memory /\ memory["bb:02"].first_seen = now
    /\ ~last.repeat
    /\ activity_history[Len(activity_history)] = [t |-> now, count |-> 1]

(* C19: an on_epoch that arrives with the dirty flag clear runs no         *)
(* eviction sweep, writes no snapshot, and leaves the memory store and the *)
(* dirty flag unchanged.                                                   *)
C19_CleanEpochSkipsAll ==
    [][(~memory_is_dirty /\ last'.op = "epoch") =>
          /\ ~last'.swept
          /\ last'.write = "none"
          /\ disk' = disk
          /\ memory' = memory
          /\ memory_is_dirty' = memory_is_dirty
      ]_vars

LastOf(S) == CHOOSE i \in S : \A j \in S : j <= i

(* C20: re-observing an AP that is in memory overwrites last-seen and      *)
(* signal-strength, and overwrites the display-name only with a non-empty  *)
(* one (an empty one leaves the stored name); hence a display-name that is *)
(* non-empty stays non-empty in every later state while the record exists. *)
C20_NameLastNonEmptyWins ==
    /\ [][\A a \in DOMAIN memory \cap DOMAIN memory' :
             memory[a].ssid # "" => memory'[a].ssid # ""
         ]_vars
    /\ [][last'.op = "batch" =>
             \A a \in DOMAIN memory :
                LET aps == last'.aps
                    seen == {i \in DOMAIN aps :
                                HasId(aps[i]) /\ CaseFolded(aps[i].mac) = a}
                    named == {i \in seen : aps[i].hostname # ""}
                IN  seen # {} =>
                       /\ memory'[a].last_seen = now
                       /\ memory'[a].rssi = aps[LastOf(seen)].rssi
                       /\ memory'[a].ssid = IF named = {}
                                             THEN memory[a].ssid
                                             ELSE aps[LastOf(named)].hostname
         ]_vars

(* C20 witness: the AP named HomeNet was re-observed with an empty name    *)
(* and a new signal strength.                                              *)
C20_Witness ==
    /\ last.op = "batch" /\ last.aps = Batches[3]
    /\ "aa:01" \in DOMAIN memory
    /\ memory["aa:01"].ssid = "HomeNet"
    /\ memory["aa:01"].rssi = -70
    /\ memory["aa:01"].last_seen = now

Whitelisted(mem, a) == mem[a].ssid \in home_whitelist \/ a \in home_whitelist

(* C21, as stated: under auto, from the batch that ingests a whitelisted   *)
(* AP until a sweep evicts that AP, every processed batch selects recon,   *)
(* whether or not the AP is in the batch and however high the activity.    *)
C21_HomeStickyUntilEvicted ==
    [][(/\ last'.op = "batch"
        /\ mode = "auto"
        /\ \E a \in DOMAIN memory \cap DOMAIN memory' : Whitelisted(memory, a))
          => current_auto_submode' = <<"recon">>
      ]_vars

(* C21, amended: under auto, every processed batch that leaves in memory   *)
(* an AP record whose display-name or identifier key is whitelisted        *)
(* selects recon, whether or not that AP is in the batch and however high  *)
(* the activity; a sweep under auto keeps that record, name included,      *)
(* until its age exceeds 172800 s. (A re-observation under another         *)
(* non-empty name ends it earlier for a record whitelisted by name.)       *)
C21_HomeStickyWhileWhitelisted ==
    /\ [][(/\ last'.op = "batch"
            /\ mode = "auto"
            /\ \E a \in DOMAIN memory' : Whitelisted(memory', a))
              => current_auto_submode' = <<"recon">>
         ]_vars
    /\ [][(last'.op = "epoch" /\ mode = "auto") =>
              \A a \in DOMAIN memory :
                  (Whitelisted(memory, a) /\ now - memory[a].last_seen <= 172800)
                      => (a \in DOMAIN memory' /\ Whitelisted(memory', a))
         ]_vars

(* C21 witness: under auto, a burst of five new APs that does not contain  *)
(* the home AP, seen earlier and still in memory, has selected recon.      *)
C21_Witness ==
    /\ last.op = "batch" /\ mode = "auto"
    /\ last.aps = Batches[5] /\ last.count = 5
    /\ "aa:01" \in DOMAIN memory
    /\ memory["aa:01"].ssid = "HomeNet"
    /\ memory["aa:01"].last_seen < now
    /\ current_auto_submode = <<"recon">>

(* C22: starting from an empty memory store, after any sequence of ingests *)
(* and sweeps under a non-decreasing clock, every client record has        *)
(* last-seen no later than its parent AP's last-seen and first-seen no     *)
(* earlier than its parent AP's first-seen.                                *)
C22_ClientWithinParent ==
    \A a \in DOMAIN memory :
        \A c \in DOMAIN memory[a].clients :
            /\ memory[a].clients[c].last_seen <= memory[a].last_seen
            /\ memory[a].clients[c].first_seen >= memory[a].first_seen

(* C22 witness: a batch has added a client to an AP that an earlier batch  *)
(* had created without it.                                                 *)
C22_Witness ==
    /\ last.op = "batch"
    /\ \E a \in DOMAIN memory :
          \E c \in DOMAIN memory[a].clients :
              /\ memory[a].clients[c].first_seen > memory[a].first_seen
              /\ memory[a].clients[c].last_seen = now

====
